---- MODULE Spec2Model ----
(***************************************************************************)
(* The create-zone command of the DNS exporter                             *)
(* (pkg/providers/dns/command_create_zone.go): the inventory stage, the    *)
(* config stage with its reconciliation against the existing zone tf file, *)
(* and the import script stage, over a small file system; and the export   *)
(* of a CloudAccess key (pkg/providers/cloudaccess/create_key.go).         *)
(*                                                                         *)
(* Text is a sequence of units.  Every unit stands for one position of a   *)
(* file: a file offset counts units, and the unit "\"" is the double quote *)
(* that strings.Contains looks for around a resource name.                 *)
(***************************************************************************)
EXTENDS Naturals, Sequences, FiniteSets, TLC

VARIABLES
    remote,             \* the zone's recordsets at the API: name -> types
    tfstate,            \* resource addresses terraform already holds
    listFile,           \* <zone>_resources.json, the persisted inventory
    tfFile,             \* <zone>.tf, the target configuration file
    modulesDir,         \* the modules folder exists
    modFiles,           \* modules/<name>/<name>.tf, per record name
    cfgFile,            \* <zone>_zoneconfig.json
    dnsvars,            \* dnsvars.tf exists
    scriptFile,         \* <zone>_resource_import.script
    steps,              \* invocations and changes of the world so far
    hist,               \* what the last invocation saw and did
    ca                  \* the last call of createCloudAccess

vars == <<remote, tfstate, listFile, tfFile, modulesDir, modFiles, cfgFile,
          dnsvars, scriptFile, steps, hist, ca>>

-----------------------------------------------------------------------------
(* Bounds *)

MaxSteps == 3
MaxRecords == 3
MaxLen == 4
MaxVersions == 3

-----------------------------------------------------------------------------
(* Names of the program *)

zoneResource == "akamai_dns_zone"
recordsetResource == "akamai_dns_record"
moduleFolder == "modules"

zoneName == "example.com"

Names == {"mail", "www"}
Types == {"A", "AAAA"}

\* a fixed order of the names and of the types (sorted keys, API order)
NameOrder == <<"mail", "www">>
TypeOrder == <<"A", "AAAA">>

Q == "\""
NL == "\n"

normalizeResourceName(name) ==
    IF name = "example.com" THEN "example_com" ELSE name

createRecordsetNormalName(zone, zname, ntype) ==
    zone \o "_" \o zname \o "_" \o ntype

createUniqueRecordsetName(zone, zname, ntype) ==
    createRecordsetNormalName(zone, zname, ntype)

-----------------------------------------------------------------------------
(* Sequences and text *)

Range(s) == {s[i] : i \in 1..Len(s)}

RECURSIVE SelectTypes(_, _)
SelectTypes(order, set) ==
    IF order = <<>> THEN <<>>
    ELSE (IF Head(order) \in set THEN <<Head(order)>> ELSE <<>>)
         \o SelectTypes(Tail(order), set)

\* strings.Contains(text, pat) for a pattern of units
RECURSIVE ContainsFrom(_, _, _)
ContainsFrom(text, pat, i) ==
    IF i + Len(pat) - 1 > Len(text) THEN FALSE
    ELSE IF SubSeq(text, i, i + Len(pat) - 1) = pat THEN TRUE
    ELSE ContainsFrom(text, pat, i + 1)

Contains(text, pat) == ContainsFrom(text, pat, 1)

Quoted(name) == <<Q, name, Q>>

\* all permutations of a finite set, as sequences
Perms(S) ==
    {s \in [1..Cardinality(S) -> S] : \A i, j \in 1..Cardinality(S) :
                                          i # j => s[i] # s[j]}

-----------------------------------------------------------------------------
(* Files *)

NoFile == [exists |-> FALSE, data |-> <<>>]
File(d) == [exists |-> TRUE, data |-> d]

\* os.OpenFile(name, O_CREATE|O_RDWR): the file is created empty when absent
OpenFile(f) == IF f.exists THEN f ELSE File(<<>>)

\* File.Write at the handle's offset: overwrites, then extends
WriteAt(data, off, text) ==
    SubSeq(data, 1, off) \o text
        \o SubSeq(data, off + Len(text) + 1, Len(data))

\* json.MarshalIndent of a map[string]Types: the keys in sorted order
RECURSIVE MarshalFrom(_, _)
MarshalFrom(m, order) ==
    IF order = <<>> THEN <<>>
    ELSE (IF Head(order) \in DOMAIN m
          THEN <<[key |-> Head(order), val |-> m[Head(order)]]>>
          ELSE <<>>)
         \o MarshalFrom(m, Tail(order))

Marshal(m) == MarshalFrom(m, NameOrder)

\* json.Unmarshal into a map[string]Types
Unmarshal(js) ==
    [n \in {js[i].key : i \in 1..Len(js)} |->
        js[CHOOSE i \in 1..Len(js) : js[i].key = n].val]

EmptyMap == [n \in {} |-> <<>>]

Put(m, k, v) == [x \in DOMAIN m \cup {k} |-> IF x = k THEN v ELSE m[x]]

\* the (name, type) pairs of a map[string]Types
Pairs(m) == UNION {{<<n, m[n][i]>> : i \in 1..Len(m[n])} : n \in DOMAIN m}

-----------------------------------------------------------------------------
(* Rendered text *)

\* processZone: the zone declaration of the root module, flat or modular
processZone(resourceName, modSegment) ==
    IF modSegment
    THEN <<"module", Q, resourceName, Q, "zonename", NL>>
    ELSE <<"resource", Q, resourceName, Q, NL>>

\* the declaration of one recordset resource
RecordsetDecl(zone, zname, ntype) ==
    <<"resource">> \o Quoted(createRecordsetNormalName(zone, zname, ntype))
        \o <<NL>>

RECURSIVE RecordsetText(_, _, _)
RecordsetText(zone, zname, typeList) ==
    IF typeList = <<>> THEN <<>>
    ELSE RecordsetDecl(zone, zname, Head(typeList))
         \o RecordsetText(zone, zname, Tail(typeList))

\* dnsModuleConfig1 ++ name ++ dnsModuleConfig2 ++ path: the reference of
\* the root module to the module of one record name
ModuleBlock(zname) == <<"module", Q, zname, Q, "source", NL>>

-----------------------------------------------------------------------------
(* The inventory and its persisted form *)

resourceZoneName == normalizeResourceName(zoneName)

\* a nil *zoneImportListStruct
NoList == [Zone |-> "", Recordsets |-> EmptyMap]

MarshalList(l) == [Zone |-> l.Zone, Recordsets |-> Marshal(l.Recordsets)]
UnmarshalList(js) == [Zone |-> js.Zone, Recordsets |-> Unmarshal(js.Recordsets)]

NoFlags ==
    [createImportList |-> FALSE, createConfig |-> FALSE,
     ConfigOnly |-> FALSE, NamesOnly |-> FALSE, ModSegment |-> FALSE,
     importScript |-> FALSE]

AllFlags ==
    [createImportList : BOOLEAN, createConfig : BOOLEAN,
     ConfigOnly : BOOLEAN, NamesOnly : BOOLEAN, ModSegment : BOOLEAN,
     importScript : BOOLEAN]

\* retrieveZoneImportList without the branch of configonly
retrieveZoneImportList_LoadsAlways(fl, inMemory, file) ==
    IF fl.createImportList
    THEN [err |-> FALSE, fromFile |-> FALSE, list |-> inMemory]
    ELSE IF ~file.exists
    THEN [err |-> TRUE, fromFile |-> FALSE, list |-> NoList]
    ELSE [err |-> FALSE, fromFile |-> TRUE, list |-> UnmarshalList(file.data)]

\* retrieveZoneImportList taking a missing side file for an empty inventory
retrieveZoneImportList_MissingIsEmpty(fl, inMemory, file) ==
    IF fl.createImportList
    THEN [err |-> FALSE, fromFile |-> FALSE, list |-> inMemory]
    ELSE IF fl.ConfigOnly \/ ~file.exists
    THEN [err |-> FALSE, fromFile |-> FALSE,
          list |-> [Zone |-> zoneName, Recordsets |-> EmptyMap]]
    ELSE [err |-> FALSE, fromFile |-> TRUE, list |-> UnmarshalList(file.data)]

\* retrieveZoneImportList reading the side file although the inventory
\* stage of the invocation holds the inventory
retrieveZoneImportList_ReadsFile(fl, inMemory, file) ==
    IF fl.ConfigOnly
    THEN [err |-> FALSE, fromFile |-> FALSE,
          list |-> [Zone |-> zoneName, Recordsets |-> EmptyMap]]
    ELSE IF ~file.exists
    THEN [err |-> TRUE, fromFile |-> FALSE, list |-> NoList]
    ELSE [err |-> FALSE, fromFile |-> TRUE, list |-> UnmarshalList(file.data)]

\* the inventory of this run (createImportList), an empty one (configonly),
\* or the one read from the side file
retrieveZoneImportList(fl, inMemory, file) ==
    IF fl.createImportList
    THEN [err |-> FALSE, fromFile |-> FALSE, list |-> inMemory]
    ELSE IF fl.ConfigOnly
    THEN [err |-> FALSE, fromFile |-> FALSE,
          list |-> [Zone |-> zoneName, Recordsets |-> EmptyMap]]
    ELSE IF ~file.exists
    THEN [err |-> TRUE, fromFile |-> FALSE, list |-> NoList]
    ELSE [err |-> FALSE, fromFile |-> TRUE, list |-> UnmarshalList(file.data)]

-----------------------------------------------------------------------------
(* Reconciliation against the existing zone tf file *)

\* the text handed back: what was read, without its last position
tfConfigOf(data) ==
    IF Len(data) > 0 THEN SubSeq(data, 1, Len(data) - 1) ELSE <<>>

\* the inner loop without its test: every type is kept
revisedTypeList_NoFilter(tfConfig, zone, zname, typeList) == typeList

\* the inner loop deciding by record name: one type found strikes them all
revisedTypeList_PerName(tfConfig, zone, zname, typeList) ==
    IF \E i \in 1..Len(typeList) :
          Contains(tfConfig,
              Quoted(createRecordsetNormalName(zone, zname, typeList[i])))
    THEN <<>>
    ELSE typeList

\* the inner loop with its test turned round: the types found are kept
RECURSIVE revisedTypeList_Inverted(_, _, _, _)
revisedTypeList_Inverted(tfConfig, zone, zname, typeList) ==
    IF typeList = <<>> THEN <<>>
    ELSE (IF Contains(tfConfig,
                Quoted(createRecordsetNormalName(zone, zname, Head(typeList))))
          THEN <<Head(typeList)>>
          ELSE <<>>)
         \o revisedTypeList_Inverted(tfConfig, zone, zname, Tail(typeList))

\* the inner loop looking for the name without the quotes around it
RECURSIVE revisedTypeList_Unquoted(_, _, _, _)
revisedTypeList_Unquoted(tfConfig, zone, zname, typeList) ==
    IF typeList = <<>> THEN <<>>
    ELSE (IF ~Contains(tfConfig,
                <<createRecordsetNormalName(zone, zname, Head(typeList))>>)
          THEN <<Head(typeList)>>
          ELSE <<>>)
         \o revisedTypeList_Unquoted(tfConfig, zone, zname, Tail(typeList))

\* the inner loop: the types of one name not found in the existing text
RECURSIVE revisedTypeList(_, _, _, _)
revisedTypeList(tfConfig, zone, zname, typeList) ==
    IF typeList = <<>> THEN <<>>
    ELSE (IF ~Contains(tfConfig,
                Quoted(createRecordsetNormalName(zone, zname, Head(typeList))))
          THEN <<Head(typeList)>>
          ELSE <<>>)
         \o revisedTypeList(tfConfig, zone, zname, Tail(typeList))

\* reconcileZoneResourceTargets leaving the inventory it was given alone
reconcileZoneResourceTargets_ReadOnly(zoneImportList, zone, f) ==
    LET opened == OpenFile(f)
        tfConfig == tfConfigOf(opened.data)
        revised == [n \in DOMAIN zoneImportList.Recordsets |->
                       revisedTypeList(tfConfig, zone, n,
                                       zoneImportList.Recordsets[n])]
    IN  [tfHandle |-> [data |-> opened.data, off |-> 0],
         tfConfig |-> tfConfig,
         zoneImportList |-> zoneImportList,
         zoneTypeMap |-> [n \in DOMAIN revised |->
                             [t \in Range(revised[n]) |-> TRUE]]]

\* reconcileZoneResourceTargets: open and read the zone tf file, then strike
\* from the inventory what the text read declares
reconcileZoneResourceTargets(zoneImportList, zone, f) ==
    LET opened == OpenFile(f)
        tfConfig == tfConfigOf(opened.data)
        revised == [n \in DOMAIN zoneImportList.Recordsets |->
                       revisedTypeList(tfConfig, zone, n,
                                       zoneImportList.Recordsets[n])]
    IN  [tfHandle |-> [data |-> opened.data, off |-> 0],
         tfConfig |-> tfConfig,
         zoneImportList |-> [zoneImportList EXCEPT !.Recordsets = revised],
         zoneTypeMap |-> [n \in DOMAIN revised |->
                             [t \in Range(revised[n]) |-> TRUE]]]

-----------------------------------------------------------------------------
(* Emission *)

\* appendRootModuleTF: write at the offset of the handle kept open
appendRootModuleTF(h, configText) ==
    [data |-> WriteAt(h.data, h.off, configText),
     off |-> h.off + Len(configText)]

\* createModuleTF writing over a module file that exists
createModuleTF_Overwrites(mods, modName, content) ==
    [err |-> FALSE, mods |-> [mods EXCEPT ![modName] = File(content)]]

\* createModuleTF: an existing module file is an error
createModuleTF(mods, modName, content) ==
    IF mods[modName].exists
    THEN [err |-> TRUE, mods |-> mods]
    ELSE [err |-> FALSE, mods |-> [mods EXCEPT ![modName] = File(content)]]

\* processRecordsets: the names of zoneTypeMap in the order ord, from the
\* i-th on; a write error strikes before the name at position failAt + 1
RECURSIVE processRecordsetsFrom(_, _, _, _, _, _, _, _)
processRecordsetsFrom(st, zone, zoneTypeMap, seg, ord, i, werr, failAt) ==
    IF i > Len(ord) \/ st.err THEN st
    ELSE
      LET zname == ord[i]
          typeList == IF zname \in DOMAIN zoneTypeMap
                      THEN SelectTypes(TypeOrder,
                               {t \in DOMAIN zoneTypeMap[zname] :
                                    zoneTypeMap[zname][t]})
                      ELSE <<>>
          content == RecordsetText(zone, zname, typeList)
          made == createModuleTF(st.mods, zname, content)
          next ==
            IF typeList = <<>> THEN st
            ELSE IF werr /\ failAt = i - 1 THEN [st EXCEPT !.err = TRUE]
            ELSE IF seg
            THEN IF made.err THEN [st EXCEPT !.err = TRUE, !.modErr = TRUE]
                 ELSE [st EXCEPT !.mods = made.mods,
                                 !.h = appendRootModuleTF(st.h, ModuleBlock(zname)),
                                 !.cfg = Put(st.cfg, zname, typeList)]
            ELSE [st EXCEPT !.h = appendRootModuleTF(st.h, content),
                            !.cfg = Put(st.cfg, zname, typeList)]
      IN processRecordsetsFrom(next, zone, zoneTypeMap, seg, ord, i + 1,
                               werr, failAt)

processRecordsets(h, mods, zone, zoneTypeMap, seg, ord, werr, failAt) ==
    processRecordsetsFrom([h |-> h, mods |-> mods, cfg |-> EmptyMap,
                           err |-> FALSE, modErr |-> FALSE],
                          zone, zoneTypeMap, seg, ord, 1, werr, failAt)

-----------------------------------------------------------------------------
(* The import script *)

checkForResource(state, rtype, rname) == (rtype \o "." \o rname) \in state

importPrefix == "terraform import "

ZoneImportLine(zone, resourceName) ==
    importPrefix \o zoneResource \o "." \o resourceName \o " " \o zone

RecordImportLine(zone, resourceName, zname, tname) ==
    importPrefix \o recordsetResource \o "."
        \o createRecordsetNormalName(resourceName, zname, tname)
        \o " " \o zone \o "#" \o zname \o "#" \o tname

RECURSIVE TypeLines(_, _, _, _, _)
TypeLines(state, zone, resourceName, zname, typeList) ==
    IF typeList = <<>> THEN <<>>
    ELSE (IF ~checkForResource(state, recordsetResource,
                 createRecordsetNormalName(resourceName, zname, Head(typeList)))
          THEN <<RecordImportLine(zone, resourceName, zname, Head(typeList))>>
          ELSE <<>>)
         \o TypeLines(state, zone, resourceName, zname, Tail(typeList))

RECURSIVE NameLines(_, _, _, _, _)
NameLines(state, zone, zoneConfigMap, resourceName, ord) ==
    IF ord = <<>> THEN <<>>
    ELSE (IF Head(ord) \in DOMAIN zoneConfigMap
          THEN TypeLines(state, zone, resourceName, Head(ord),
                         zoneConfigMap[Head(ord)])
          ELSE <<>>)
         \o NameLines(state, zone, zoneConfigMap, resourceName, Tail(ord))

\* buildZoneImportScript without the line of the zone resource
buildZoneImportScript_NoZone(state, zone, zoneConfigMap, resourceName, ord) ==
    <<"terraform init">>
        \o NameLines(state, zone, zoneConfigMap, resourceName, ord)

\* buildZoneImportScript without the look for the zone resource
buildZoneImportScript_AlwaysZone(state, zone, zoneConfigMap, resourceName, ord) ==
    <<"terraform init">>
        \o <<ZoneImportLine(zone, resourceName)>>
        \o NameLines(state, zone, zoneConfigMap, resourceName, ord)

\* ord: the order in which the map zoneConfigMap is ranged over
buildZoneImportScript(state, zone, zoneConfigMap, resourceName, ord) ==
    <<"terraform init">>
        \o (IF ~checkForResource(state, zoneResource, resourceName)
            THEN <<ZoneImportLine(zone, resourceName)>>
            ELSE <<>>)
        \o NameLines(state, zone, zoneConfigMap, resourceName, ord)

retrieveZoneResourceConfig(fl, inMemory, file) ==
    IF fl.createConfig THEN inMemory
    ELSE IF ~file.exists THEN EmptyMap
    ELSE Unmarshal(file.data)

-----------------------------------------------------------------------------
(* CmdCreateZone: the inventory stage *)

\* the one failure of an invocation: none, or the fetch or write that fails
NoFault == [kind |-> "none", at |-> 0]

Faults ==
    {NoFault, [kind |-> "zone", at |-> 0], [kind |-> "names", at |-> 0],
     [kind |-> "mkdir", at |-> 0], [kind |-> "stat", at |-> 0],
     [kind |-> "notdir", at |-> 0]}
    \cup [kind : {"types", "write"}, at : 1..Cardinality(Names)]

ZoneMsg == "Zone retrieval failed"
NamesMsg == "Zone Name retrieval failed"
TypesMsg == "Zone Name types retrieval failed"
ListExistsMsg == "Resource list file exists. Remove to continue."
ModularizedMsg == "Failed. Existing zone config is modularized"
NotModularizedMsg == "Failed. Existing zone config is not modularized"
NoListMsg == "Failed to read json zone resources file"
RecordsetsMsg == "Failed to process recordsets."
ModulesMsg == "Failed to create modules folder."
Completed == "Zone configuration completed"

\* panic(err) in createDirectory: the Go runtime prints the panic and the
\* process ends with status 2, without a cli.Exit
PanicMsg == "panic: "

\* createDirectory(dirName).  path: what dirName names ("none", "dir", or
\* "file" for anything that is not a directory); statFails: os.Stat returns
\* an error other than not-exist, and a nil FileInfo with it; mkdirFails:
\* os.MkdirAll returns an error.  ret is the boolean returned, panics the
\* end of the process in a panic, path what dirName names afterwards
createDirectory(path, statFails, mkdirFails) ==
    IF ~statFails /\ path = "dir"
    THEN [ret |-> TRUE, panics |-> FALSE, path |-> "dir"]
    ELSE IF ~statFails /\ path = "none"
    THEN IF mkdirFails
         THEN [ret |-> FALSE, panics |-> TRUE, path |-> "none"]
         ELSE [ret |-> TRUE, panics |-> FALSE, path |-> "dir"]
    ELSE IF statFails
    THEN [ret |-> FALSE, panics |-> TRUE, path |-> path]
    ELSE [ret |-> FALSE, panics |-> FALSE, path |-> path]

\* what the path of the modules folder names in an invocation
ModulePath(fault, dir) ==
    IF dir THEN "dir" ELSE IF fault.kind = "notdir" THEN "file" ELSE "none"

\* createDirectory(modulePath) as the config stage calls it
createModulesFolder(fault, dir) ==
    createDirectory(ModulePath(fault, dir), fault.kind = "stat",
                    fault.kind = "mkdir")

\* no call of createDirectory
NoDirCall ==
    [called |-> FALSE, before |-> "none", ret |-> FALSE, panics |-> FALSE,
     after |-> "none"]

\* createDirectory(modulePath) ends the process in a panic
createDirectoryPanics(fl, fault, dir) ==
    fl.ModSegment /\ createModulesFolder(fault, dir).panics

\* retrieveZoneResourceConfig returns an error: the script stage runs
\* without the config stage and os.Stat finds no resource config file
retrieveZoneResourceConfigErr(fl, file) == ~fl.createConfig /\ ~file.exists

\* retrieveZoneResourceConfig reads the resource config file: the script
\* stage runs without the config stage and the file is there
retrieveZoneResourceConfigReads(fl, file) == ~fl.createConfig /\ file.exists

\* the result of a stage that did not run
SkipInventory ==
    [msg |-> "", list |-> NoList, listFile |-> NoFile, fetches |-> 0,
     fetched |-> <<>>, failedName |-> "", recordNames |-> <<>>]

\* the inventory stage writing over a resources list file that exists
InventoryStage_Overwrites(fl, fault, api, lf) ==
    LET recordNames == SelectTypes(NameOrder, DOMAIN api)
        typesFail == fault.kind = "types" /\ ~fl.NamesOnly
                     /\ fault.at <= Len(recordNames)
        msg == IF fault.kind = "names" THEN NamesMsg
               ELSE IF typesFail THEN TypesMsg
               ELSE ""
        list == [Zone |-> zoneName,
                 Recordsets |-> [n \in Range(recordNames) |->
                                    IF fl.NamesOnly THEN <<>> ELSE api[n]]]
    IN  [msg |-> msg,
         list |-> IF msg = "" THEN list ELSE NoList,
         listFile |-> IF msg = "" THEN File(MarshalList(list)) ELSE lf,
         fetches |-> IF fault.kind = "names" \/ fl.NamesOnly THEN 0
                     ELSE IF typesFail THEN fault.at
                     ELSE Len(recordNames),
         fetched |-> IF fault.kind = "names" \/ fl.NamesOnly THEN <<>>
                     ELSE IF typesFail THEN SubSeq(recordNames, 1, fault.at)
                     ELSE recordNames,
         failedName |-> IF typesFail THEN recordNames[fault.at] ELSE "",
         recordNames |-> IF fault.kind = "names" THEN <<>> ELSE recordNames]

\* the inventory stage without the branch of namesonly
InventoryStage_FetchesTypes(fl, fault, api, lf) ==
    LET recordNames == SelectTypes(NameOrder, DOMAIN api)
        typesFail == fault.kind = "types" /\ fault.at <= Len(recordNames)
        msg == IF fault.kind = "names" THEN NamesMsg
               ELSE IF typesFail THEN TypesMsg
               ELSE IF lf.exists THEN ListExistsMsg
               ELSE ""
        list == [Zone |-> zoneName,
                 Recordsets |-> [n \in Range(recordNames) |-> api[n]]]
    IN  [msg |-> msg,
         list |-> IF msg = "" THEN list ELSE NoList,
         listFile |-> IF msg = "" THEN File(MarshalList(list)) ELSE lf,
         fetches |-> IF fault.kind = "names" THEN 0
                     ELSE IF typesFail THEN fault.at
                     ELSE Len(recordNames),
         fetched |-> IF fault.kind = "names" THEN <<>>
                     ELSE IF typesFail THEN SubSeq(recordNames, 1, fault.at)
                     ELSE recordNames,
         failedName |-> IF typesFail THEN recordNames[fault.at] ELSE "",
         recordNames |-> IF fault.kind = "names" THEN <<>> ELSE recordNames]

\* the inventory stage going on to the next record name after a failed
\* fetch of types
InventoryStage_FetchesOn(fl, fault, api, lf) ==
    LET recordNames == SelectTypes(NameOrder, DOMAIN api)
        typesFail == fault.kind = "types" /\ ~fl.NamesOnly
                     /\ fault.at <= Len(recordNames)
        msg == IF fault.kind = "names" THEN NamesMsg
               ELSE IF typesFail THEN TypesMsg
               ELSE IF lf.exists THEN ListExistsMsg
               ELSE ""
        list == [Zone |-> zoneName,
                 Recordsets |-> [n \in Range(recordNames) |->
                                    IF fl.NamesOnly THEN <<>> ELSE api[n]]]
    IN  [msg |-> msg,
         list |-> IF msg = "" THEN list ELSE NoList,
         listFile |-> IF msg = "" THEN File(MarshalList(list)) ELSE lf,
         fetches |-> IF fault.kind = "names" \/ fl.NamesOnly THEN 0
                     ELSE Len(recordNames),
         fetched |-> IF fault.kind = "names" \/ fl.NamesOnly THEN <<>>
                     ELSE recordNames,
         failedName |-> IF typesFail THEN recordNames[fault.at] ELSE "",
         recordNames |-> IF fault.kind = "names" THEN <<>> ELSE recordNames]

InventoryStage(fl, fault, api, lf) ==
    LET recordNames == SelectTypes(NameOrder, DOMAIN api)
        namesFail == fault.kind = "names"
        typesFail == fault.kind = "types" /\ ~fl.NamesOnly
                     /\ fault.at <= Len(recordNames)
        recordsets == [n \in Range(recordNames) |->
                          IF fl.NamesOnly THEN <<>> ELSE api[n]]
        list == [Zone |-> zoneName, Recordsets |-> recordsets]
        msg == IF namesFail THEN NamesMsg
               ELSE IF typesFail THEN TypesMsg
               ELSE IF lf.exists THEN ListExistsMsg
               ELSE ""
    IN  [msg |-> msg,
         list |-> IF msg = "" THEN list ELSE NoList,
         listFile |-> IF msg = "" THEN File(MarshalList(list)) ELSE lf,
         fetches |-> IF namesFail \/ fl.NamesOnly THEN 0
                     ELSE IF typesFail THEN fault.at
                     ELSE Len(recordNames),
         fetched |-> IF namesFail \/ fl.NamesOnly THEN <<>>
                     ELSE IF typesFail THEN SubSeq(recordNames, 1, fault.at)
                     ELSE recordNames,
         failedName |-> IF ~namesFail /\ typesFail
                        THEN recordNames[fault.at] ELSE "",
         recordNames |-> IF namesFail THEN <<>> ELSE recordNames]

-----------------------------------------------------------------------------
(* CmdCreateZone: the config stage *)

\* the config stage without the check of the layout
LayoutMismatch_None(zonetfConfig, modSegment) == ""

\* the check of the existing text against the layout asked for
LayoutMismatch(zonetfConfig, modSegment) ==
    IF Len(zonetfConfig) > 0
    THEN IF Contains(zonetfConfig, <<"module">>)
            /\ Contains(zonetfConfig, <<"zonename">>)
         THEN IF ~modSegment THEN ModularizedMsg ELSE ""
         ELSE IF modSegment THEN NotModularizedMsg ELSE ""
    ELSE ""

\* "build tf file if none", rendering the zone whatever the file holds
zoneConfigText_Always(zonetfConfig, resourceName, modSegment) ==
    zonetfConfig \o processZone(resourceName, modSegment)

\* "build tf file if none": the text written first to the zone tf file is
\* the existing text, or the zone rendered by processZone when there is none
zoneConfigText(zonetfConfig, resourceName, modSegment) ==
    IF Len(zonetfConfig) > 0 THEN zonetfConfig
    ELSE processZone(resourceName, modSegment)

\* ord: the order in which the names are ranged over
ConfigStage(fl, fault, ord, inMemory, lf, tf, dir, mods, cfg, dv) ==
    LET got == retrieveZoneImportList(fl, inMemory, lf)
        made == createModulesFolder(fault, dir)
        panics == ~got.err /\ createDirectoryPanics(fl, fault, dir)
        refused == ~got.err /\ fl.ModSegment /\ ~made.panics /\ ~made.ret
        stopped == got.err \/ panics \/ refused
        rec == reconcileZoneResourceTargets(got.list, resourceZoneName, tf)
        mismatch == LayoutMismatch(rec.tfConfig, fl.ModSegment)
        zonetfConfig == zoneConfigText(rec.tfConfig, resourceZoneName,
                                       fl.ModSegment)
        h1 == appendRootModuleTF(rec.tfHandle, zonetfConfig)
        st == processRecordsets(h1, mods, resourceZoneName, rec.zoneTypeMap,
                                fl.ModSegment, ord, fault.kind = "write",
                                fault.at - 1)
        msg == IF got.err THEN NoListMsg
               ELSE IF panics THEN PanicMsg
               ELSE IF refused THEN ModulesMsg
               ELSE IF mismatch # "" THEN mismatch
               ELSE IF st.err THEN RecordsetsMsg
               ELSE ""
        wrote == ~stopped /\ mismatch = ""
    IN  [msg |-> msg,
         loaded |-> got.fromFile,
         reconciled |-> ~stopped,
         rendered |-> ~stopped /\ Len(rec.tfConfig) = 0,
         modErr |-> wrote /\ st.modErr,
         invIn |-> got.list.Recordsets,
         invOut |-> IF stopped THEN EmptyMap
                    ELSE rec.zoneImportList.Recordsets,
         list |-> IF stopped \/ ~fl.createImportList THEN inMemory
                  ELSE rec.zoneImportList,
         tfConfig |-> IF stopped THEN <<>> ELSE rec.tfConfig,
         residual |-> IF stopped THEN EmptyMap
                      ELSE rec.zoneImportList.Recordsets,
         typeMap |-> IF stopped THEN EmptyMap ELSE rec.zoneTypeMap,
         tfFile |-> IF stopped THEN tf
                    ELSE IF mismatch # "" THEN File(rec.tfHandle.data)
                    ELSE File(st.h.data),
         modulesDir |-> IF got.err \/ ~fl.ModSegment THEN dir
                        ELSE made.path = "dir",
         dirCall |-> IF got.err \/ ~fl.ModSegment THEN NoDirCall
                     ELSE [called |-> TRUE, before |-> ModulePath(fault, dir),
                           ret |-> made.ret, panics |-> made.panics,
                           after |-> made.path],
         modFiles |-> IF wrote THEN st.mods ELSE mods,
         cfgMap |-> IF msg = "" THEN st.cfg ELSE EmptyMap,
         cfgFile |-> IF msg = "" THEN File(Marshal(st.cfg)) ELSE cfg,
         dnsvars |-> IF msg = "" THEN TRUE ELSE dv]

\* the zone tf file opened, and so created, although no config was asked for
SkipConfig_OpensFile(tf, dir, mods, cfg, dv, inMemory) ==
    [msg |-> "", loaded |-> FALSE, reconciled |-> FALSE,
     rendered |-> FALSE, modErr |-> FALSE, invIn |-> EmptyMap,
     invOut |-> EmptyMap, list |-> inMemory, tfConfig |-> <<>>,
     residual |-> EmptyMap, typeMap |-> EmptyMap, tfFile |-> OpenFile(tf),
     modulesDir |-> dir, dirCall |-> NoDirCall,
     modFiles |-> mods, cfgMap |-> EmptyMap,
     cfgFile |-> cfg, dnsvars |-> dv]

\* the config stage is not run: its files stay as they are
SkipConfig(tf, dir, mods, cfg, dv, inMemory) ==
    [msg |-> "", loaded |-> FALSE, reconciled |-> FALSE,
     rendered |-> FALSE, modErr |-> FALSE, invIn |-> EmptyMap,
     invOut |-> EmptyMap, list |-> inMemory, tfConfig |-> <<>>,
     residual |-> EmptyMap, typeMap |-> EmptyMap, tfFile |-> tf,
     modulesDir |-> dir, dirCall |-> NoDirCall,
     modFiles |-> mods, cfgMap |-> EmptyMap,
     cfgFile |-> cfg, dnsvars |-> dv]

-----------------------------------------------------------------------------
(* CmdCreateZone: the import script stage *)

ScriptStage(fl, ord, inMemory, cfg, state) ==
    LET zoneConfigMap == retrieveZoneResourceConfig(fl, inMemory, cfg)
    IN  [cfgMap |-> zoneConfigMap,
         readErr |-> retrieveZoneResourceConfigErr(fl, cfg),
         fromFile |-> retrieveZoneResourceConfigReads(fl, cfg),
         scriptFile |-> File(buildZoneImportScript(state, zoneName,
                                 zoneConfigMap, resourceZoneName, ord))]

-----------------------------------------------------------------------------
(* The export of a CloudAccess key *)

ErrFetchingKey == "problem with fetching key"
ErrListingKeyVersions == "problem with listing key versions"
ErrSavingFiles == "saving terraform project files"
ErrNoGroup == "access key has no defined group or contract"

\* the files ProcessTemplates renders
TemplateTargets == {"cloudaccess.tf", "variables.tf", "import.sh"}

\* strings.ReplaceAll(name, "-", "_") over a name given by its characters
ReplaceAll(name) == [i \in 1..Len(name) |-> IF name[i] = "-" THEN "_" ELSE name[i]]

\* a pointer is a sequence: empty for nil, else the one value pointed to
Credential(id) == <<[CloudAccessKeyID |-> id]>>

\* slices.SortFunc(versions, cmp.Compare(a.Version, b.Version)) over
\* versions of distinct numbers
RECURSIVE InsertVersion(_, _)
InsertVersion(sorted, v) ==
    IF sorted = <<>> THEN <<v>>
    ELSE IF v.Version < Head(sorted).Version THEN <<v>> \o sorted
    ELSE <<Head(sorted)>> \o InsertVersion(Tail(sorted), v)

RECURSIVE SortFunc(_)
SortFunc(versions) ==
    IF versions = <<>> THEN <<>>
    ELSE InsertVersion(SortFunc(Tail(versions)), Head(versions))

\* populateCloudAccessData without the sort of the versions
populateCloudAccessData_Unsorted(section, key, versions) ==
    [Section |-> section,
     Key |-> [KeyResourceName |-> ReplaceAll(key.AccessKeyName),
              AccessKeyName |-> key.AccessKeyName,
              GroupID |-> IF Len(key.Groups) > 0 THEN key.Groups[1].GroupID
                          ELSE 0,
              ContractID |-> IF Len(key.Groups) > 0
                                /\ Len(key.Groups[1].ContractIDs) > 0
                             THEN key.Groups[1].ContractIDs[1] ELSE "",
              AccessKeyUID |-> key.AccessKeyUID,
              CredentialA |->
                  IF Len(versions) = 0 THEN <<>>
                  ELSE IF Len(versions) = 1
                  THEN Credential(versions[1].CloudAccessKeyID)
                  ELSE Credential(versions[2].CloudAccessKeyID),
              CredentialB |->
                  IF Len(versions) < 2 THEN <<>>
                  ELSE Credential(versions[1].CloudAccessKeyID)]]

\* populateCloudAccessData taking the higher of the versions first
populateCloudAccessData_Descending(section, key, versions) ==
    [Section |-> section,
     Key |-> [KeyResourceName |-> ReplaceAll(key.AccessKeyName),
              AccessKeyName |-> key.AccessKeyName,
              GroupID |-> IF Len(key.Groups) > 0 THEN key.Groups[1].GroupID
                          ELSE 0,
              ContractID |-> IF Len(key.Groups) > 0
                                /\ Len(key.Groups[1].ContractIDs) > 0
                             THEN key.Groups[1].ContractIDs[1] ELSE "",
              AccessKeyUID |-> key.AccessKeyUID,
              CredentialA |->
                  IF Len(versions) = 0 THEN <<>>
                  ELSE IF Len(versions) = 1
                  THEN Credential(versions[1].CloudAccessKeyID)
                  ELSE Credential(SortFunc(versions)[Len(versions) - 1]
                                      .CloudAccessKeyID),
              CredentialB |->
                  IF Len(versions) < 2 THEN <<>>
                  ELSE Credential(SortFunc(versions)[Len(versions)]
                                      .CloudAccessKeyID)]]

\* populateCloudAccessData: group and contract of the first group, and the
\* credentials by the number of versions
populateCloudAccessData(section, key, versions) ==
    [Section |-> section,
     Key |-> [KeyResourceName |-> ReplaceAll(key.AccessKeyName),
              AccessKeyName |-> key.AccessKeyName,
              GroupID |-> IF Len(key.Groups) > 0 THEN key.Groups[1].GroupID
                          ELSE 0,
              ContractID |-> IF Len(key.Groups) > 0
                                /\ Len(key.Groups[1].ContractIDs) > 0
                             THEN key.Groups[1].ContractIDs[1] ELSE "",
              AccessKeyUID |-> key.AccessKeyUID,
              CredentialA |->
                  IF Len(versions) = 0 THEN <<>>
                  ELSE IF Len(versions) = 1
                  THEN Credential(versions[1].CloudAccessKeyID)
                  ELSE Credential(SortFunc(versions)[2].CloudAccessKeyID),
              CredentialB |->
                  IF Len(versions) < 2 THEN <<>>
                  ELSE Credential(SortFunc(versions)[1].CloudAccessKeyID)]]

\* createCloudAccess going on to the versions of a key without groups
createCloudAccess_NoGroupCheck(fault, partial, section, key, versions) ==
    IF fault = "key"
    THEN [err |-> ErrFetchingKey, calls |-> <<"GetAccessKey">>,
          data |-> <<>>, files |-> {}]
    ELSE IF fault = "versions"
    THEN [err |-> ErrListingKeyVersions,
          calls |-> <<"GetAccessKey", "ListAccessKeyVersions">>,
          data |-> <<>>, files |-> {}]
    ELSE [err |-> IF fault = "templates" THEN ErrSavingFiles ELSE "",
          calls |-> <<"GetAccessKey", "ListAccessKeyVersions",
                      "ProcessTemplates">>,
          data |-> <<populateCloudAccessData(section, key, versions)>>,
          files |-> IF fault = "templates" THEN partial
                    ELSE TemplateTargets]

\* createCloudAccess.  fault: the call that fails, if any; partial: the
\* files a failed ProcessTemplates has written.  err is the sentinel the
\* error returned wraps ("" for nil), calls the calls made in their order
createCloudAccess(fault, partial, section, key, versions) ==
    IF fault = "key"
    THEN [err |-> ErrFetchingKey, calls |-> <<"GetAccessKey">>,
          data |-> <<>>, files |-> {}]
    ELSE IF Len(key.Groups) = 0
    THEN [err |-> ErrNoGroup, calls |-> <<"GetAccessKey">>,
          data |-> <<>>, files |-> {}]
    ELSE IF fault = "versions"
    THEN [err |-> ErrListingKeyVersions,
          calls |-> <<"GetAccessKey", "ListAccessKeyVersions">>,
          data |-> <<>>, files |-> {}]
    ELSE [err |-> IF fault = "templates" THEN ErrSavingFiles ELSE "",
          calls |-> <<"GetAccessKey", "ListAccessKeyVersions",
                      "ProcessTemplates">>,
          data |-> <<populateCloudAccessData(section, key, versions)>>,
          files |-> IF fault = "templates" THEN partial
                    ELSE TemplateTargets]

\* no call of createCloudAccess yet
CaNone ==
    [called |-> FALSE, fault |-> "none", groups |-> <<>>, versions |-> <<>>,
     err |-> "", calls |-> <<>>, data |-> <<>>, files |-> {}]

-----------------------------------------------------------------------------
(* The state *)

HistNone ==
    [fl |-> NoFlags, stages |-> <<>>, code |-> 0, msg |-> "",
     failedOps |-> {}, fetched |-> <<>>, failedName |-> "",
     recordNames |-> <<>>,
     fetches |-> 0, tfBefore |-> NoFile, listBefore |-> NoFile,
     listAfter |-> NoFile,
     scriptBefore |-> NoFile, loaded |-> FALSE, reconciled |-> FALSE,
     zoneRendered |-> FALSE, scriptLoaded |-> FALSE, moduleExists |-> FALSE,
     dirCall |-> NoDirCall,
     invIn |-> EmptyMap, invOut |-> EmptyMap, tfConfig |-> <<>>,
     residual |-> EmptyMap, typeMap |-> EmptyMap, cfgMap |-> EmptyMap,
     scriptMap |-> EmptyMap, imported |-> {}]

\* the inventory the API holds at the start: one name with one type
Init ==
    /\ remote = [n \in {"www"} |-> <<"A">>]
    /\ tfstate = {}
    /\ listFile = NoFile
    /\ tfFile = NoFile
    /\ modulesDir = FALSE
    /\ modFiles = [n \in Names |-> NoFile]
    /\ cfgFile = NoFile
    /\ dnsvars = FALSE
    /\ scriptFile = NoFile
    /\ steps = 0
    /\ hist = HistNone
    /\ ca = CaNone

\* the flags that can make a difference: namesonly acts on the inventory
\* stage, segmentconfig and configonly on the config stage
Flags ==
    {fl \in AllFlags :
        /\ fl.NamesOnly => fl.createImportList
        /\ fl.ModSegment => fl.createConfig
        /\ fl.ConfigOnly => fl.createConfig}

-----------------------------------------------------------------------------
(* CmdCreateZone: one invocation, from the flags to the exit *)

\* the record names an invocation can meet as the keys of its maps: those
\* of the API, of the resources list file and of the resource config file;
\* the order of ranging over a map of fewer than two keys makes no difference
NamesInPlay ==
    DOMAIN remote
    \cup (IF listFile.exists
          THEN DOMAIN UnmarshalList(listFile.data).Recordsets ELSE {})
    \cup (IF cfgFile.exists THEN DOMAIN Unmarshal(cfgFile.data) ELSE {})

CmdCreateZone(fl, fault, ord, ord2) ==
    /\ steps < MaxSteps
    /\ fault.kind \in {"names", "types"} => fl.createImportList
    /\ fault.kind = "types" => ~fl.NamesOnly /\ fault.at <= Cardinality(DOMAIN remote)
    /\ fault.kind = "write" => fl.createConfig
    /\ fault.kind = "mkdir" => createDirectoryPanics(fl, fault, modulesDir)
    /\ fault.kind = "stat" => fl.ModSegment
    /\ fault.kind = "notdir" => fl.ModSegment /\ ~modulesDir
    /\ ~fl.createConfig => ord = NameOrder
    /\ ~fl.importScript => ord2 = ord
    /\ fault.kind \notin {"none", "write"} => ord = NameOrder /\ ord2 = ord
    /\ Cardinality(NamesInPlay) < 2 => ord = NameOrder /\ ord2 = ord
    /\ \E inv \in {IF fault.kind # "zone" /\ fl.createImportList
                   THEN InventoryStage(fl, fault, remote, listFile)
                   ELSE [SkipInventory EXCEPT !.listFile = listFile]} :
       \E con \in {IF fault.kind # "zone" /\ inv.msg = "" /\ fl.createConfig
                   THEN ConfigStage(fl, fault, ord, inv.list, inv.listFile,
                                    tfFile, modulesDir, modFiles, cfgFile,
                                    dnsvars)
                   ELSE SkipConfig(tfFile, modulesDir, modFiles, cfgFile,
                                   dnsvars, inv.list)} :
       \E scr \in {IF fault.kind # "zone" /\ inv.msg = "" /\ con.msg = ""
                      /\ fl.importScript
                   THEN ScriptStage(fl, ord2, con.cfgMap, con.cfgFile, tfstate)
                   ELSE [cfgMap |-> EmptyMap, readErr |-> FALSE,
                         fromFile |-> FALSE,
                         scriptFile |-> scriptFile]} :
       LET zoneErr == fault.kind = "zone"
           doInv == ~zoneErr /\ fl.createImportList
           doCfg == ~zoneErr /\ inv.msg = "" /\ fl.createConfig
           doScr == ~zoneErr /\ inv.msg = "" /\ con.msg = "" /\ fl.importScript
           msg == IF zoneErr THEN ZoneMsg
                  ELSE IF inv.msg # "" THEN inv.msg
                  ELSE IF con.msg # "" THEN con.msg
                  ELSE Completed
       IN  /\ listFile' = inv.listFile
           /\ tfFile' = con.tfFile
           /\ modulesDir' = con.modulesDir
           /\ modFiles' = con.modFiles
           /\ cfgFile' = con.cfgFile
           /\ dnsvars' = con.dnsvars
           /\ scriptFile' = scr.scriptFile
           /\ hist' = [fl |-> fl,
                       stages |-> (IF doInv THEN <<"inventory">> ELSE <<>>)
                                  \o (IF doCfg THEN <<"config">> ELSE <<>>)
                                  \o (IF doScr THEN <<"script">> ELSE <<>>),
                       code |-> IF msg = Completed THEN 0
                                ELSE IF msg = PanicMsg THEN 2 ELSE 1,
                       failedOps |->
                           (IF zoneErr THEN {"GetZone"} ELSE {})
                           \cup (IF inv.msg = NamesMsg
                                 THEN {"GetZoneNames"} ELSE {})
                           \cup (IF inv.msg = TypesMsg
                                 THEN {"GetZoneNameTypes"} ELSE {})
                           \cup (IF con.msg = NoListMsg
                                 THEN {"retrieveZoneImportList"} ELSE {})
                           \cup (IF con.msg \in {PanicMsg, ModulesMsg}
                                 THEN {"createDirectory"} ELSE {})
                           \cup (IF con.msg = RecordsetsMsg
                                 THEN {"processRecordsets"} ELSE {})
                           \cup (IF scr.readErr
                                 THEN {"retrieveZoneResourceConfig"} ELSE {}),
                       msg |-> msg,
                       fetches |-> inv.fetches,
                       fetched |-> inv.fetched,
                       failedName |-> inv.failedName,
                       recordNames |-> inv.recordNames,
                       tfBefore |-> tfFile,
                       listBefore |-> listFile,
                       listAfter |-> inv.listFile,
                       scriptBefore |-> scriptFile,
                       loaded |-> con.loaded,
                       reconciled |-> con.reconciled,
                       zoneRendered |-> con.rendered,
                       moduleExists |-> con.modErr,
                       dirCall |-> con.dirCall,
                       invIn |-> con.invIn,
                       invOut |-> con.invOut,
                       tfConfig |-> con.tfConfig,
                       residual |-> con.residual,
                       typeMap |-> con.typeMap,
                       cfgMap |-> con.cfgMap,
                       scriptMap |-> scr.cfgMap,
                       scriptLoaded |-> scr.fromFile,
                       imported |-> tfstate]
    /\ steps' = steps + 1
    /\ UNCHANGED <<remote, tfstate, ca>>

-----------------------------------------------------------------------------
(* The world around the command, between invocations *)

\* the record types are added to the zone at the API in this order
GrowthOrder == <<<<"www", "A">>, <<"mail", "A">>, <<"www", "AAAA">>,
                 <<"mail", "AAAA">>>>

\* a record type is added to the zone at the API
RemoteAdd(zname, ntype) ==
    /\ steps < MaxSteps
    /\ steps' = steps + 1
    /\ Cardinality(Pairs(remote)) < MaxRecords
    /\ Cardinality(Pairs(remote)) < Len(GrowthOrder)
    /\ <<zname, ntype>> = GrowthOrder[Cardinality(Pairs(remote)) + 1]
    /\ remote' = Put(remote, zname,
                     SelectTypes(TypeOrder,
                         {ntype} \cup (IF zname \in DOMAIN remote
                                       THEN Range(remote[zname]) ELSE {})))
    /\ UNCHANGED <<tfstate, listFile, tfFile, modulesDir, modFiles, cfgFile,
                   dnsvars, scriptFile, hist, ca>>

\* the user removes the resource list file, as the command asks
RemoveListFile ==
    /\ steps < MaxSteps
    /\ steps' = steps + 1
    /\ listFile.exists
    /\ listFile' = NoFile
    /\ UNCHANGED <<remote, tfstate, tfFile, modulesDir, modFiles, cfgFile,
                   dnsvars, scriptFile, hist, ca>>

\* the record resource names a text declares
DeclaredIn(text) ==
    {createRecordsetNormalName(resourceZoneName, p[1], p[2]) :
        p \in {q \in Names \X Types :
                 Contains(text, Quoted(createRecordsetNormalName(
                                           resourceZoneName, q[1], q[2])))}}

\* the resource addresses declared in the zone tf file and the module files
DeclaredAddresses ==
    (IF Contains(tfFile.data, Quoted(resourceZoneName))
     THEN {zoneResource \o "." \o resourceZoneName} ELSE {})
    \cup {recordsetResource \o "." \o r :
             r \in DeclaredIn(tfFile.data)
                   \cup UNION {DeclaredIn(modFiles[n].data) : n \in Names}}

\* the user runs the import script: terraform now holds what is declared
TerraformImport ==
    /\ steps < MaxSteps
    /\ steps' = steps + 1
    /\ scriptFile.exists
    /\ tfstate' = tfstate \cup DeclaredAddresses
    /\ tfstate' # tfstate
    /\ UNCHANGED <<remote, listFile, tfFile, modulesDir, modFiles, cfgFile,
                   dnsvars, scriptFile, hist, ca>>

Next ==
    \/ /\ steps < MaxSteps
       /\ \E fl \in Flags, fault \in Faults, ord \in Perms(Names),
             ord2 \in Perms(Names) : CmdCreateZone(fl, fault, ord, ord2)
    \/ \E zname \in Names, ntype \in Types : RemoteAdd(zname, ntype)
    \/ RemoveListFile
    \/ TerraformImport

Spec == Init /\ [][Next]_vars

-----------------------------------------------------------------------------
(* One invocation over any zone tf file and any persisted inventory; an    *)
(* import script of an earlier run lies in the work paths that hold no     *)
(* resources list                                                          *)

\* what a zone tf file written by hand is made of
TextUnits ==
    {Q, NL, createRecordsetNormalName(resourceZoneName, "www", "A"),
     createRecordsetNormalName(resourceZoneName, "www", "AAAA")}

Texts == UNION {[1..n -> TextUnits] : n \in 0..MaxLen}

Inventories ==
    {[n \in {"www"} |-> <<"A">>],
     [n \in {"www"} |-> <<"A", "AAAA">>],
     [n \in {"mail", "www"} |-> IF n = "www" THEN <<"AAAA">> ELSE <<"A">>]}

InitTexts ==
    /\ remote = [n \in {"www"} |-> <<"A">>]
    /\ tfstate = {}
    /\ listFile \in {NoFile} \cup
          {File(MarshalList([Zone |-> zoneName, Recordsets |-> m])) :
              m \in Inventories}
    /\ tfFile \in {NoFile} \cup {File(t) : t \in Texts}
    /\ modulesDir = FALSE
    /\ modFiles = [n \in Names |-> NoFile]
    /\ cfgFile = NoFile
    /\ dnsvars = FALSE
    /\ scriptFile \in (IF listFile.exists THEN {NoFile}
                       ELSE {NoFile, File(<<"terraform init">>)})
    /\ steps = MaxSteps - 1
    /\ hist = HistNone
    /\ ca = CaNone

SpecTexts == InitTexts /\ [][Next]_vars

-----------------------------------------------------------------------------
(* The export of a CloudAccess key, over the responses of the API *)

\* the identifiers of the cloud provider keys of the versions
KeyIDPool == <<"AKIA1", "AKIA2", "AKIA3", "AKIA4", "AKIA5", "AKIA6">>

KeyIDs == {KeyIDPool[i] : i \in 1..MaxVersions}

\* the versions the API can list: each a number and an identifier
AccessKeyVersion == [Version : 1..MaxVersions, CloudAccessKeyID : KeyIDs]

\* the responses of ListAccessKeyVersions: the versions of a key in any
\* order, their numbers distinct and their identifiers distinct
VersionLists ==
    UNION {{vs \in [1..n -> AccessKeyVersion] :
               \A i, j \in 1..n :
                   i # j => /\ vs[i].Version # vs[j].Version
                            /\ vs[i].CloudAccessKeyID # vs[j].CloudAccessKeyID}
           : n \in 0..MaxVersions}

\* the groups of the key in the response of GetAccessKey
GroupLists ==
    {<<>>,
     <<[GroupID |-> 123, ContractIDs |-> <<"C-1">>]>>,
     <<[GroupID |-> 123, ContractIDs |-> <<>>]>>,
     <<[GroupID |-> 456, ContractIDs |-> <<"C-2", "C-1">>],
       [GroupID |-> 123, ContractIDs |-> <<"C-1">>]>>}

AccessKey(groups) ==
    [AccessKeyName |-> <<"k", "-", "1">>, AccessKeyUID |-> 1,
     Groups |-> groups]

CaFaults == {"none", "key", "versions", "templates"}

\* one call of createCloudAccess
CreateCloudAccess(fault, partial, groups, versions) ==
    /\ ~ca.called
    /\ fault # "templates" => partial = {}
    /\ fault = "templates" => partial # TemplateTargets
    /\ \E r \in {createCloudAccess(fault, partial, "default",
                                   AccessKey(groups), versions)} :
          ca' = [called |-> TRUE, fault |-> fault, groups |-> groups,
                 versions |-> versions, err |-> r.err, calls |-> r.calls,
                 data |-> r.data, files |-> r.files]
    /\ UNCHANGED <<remote, tfstate, listFile, tfFile, modulesDir, modFiles,
                   cfgFile, dnsvars, scriptFile, steps, hist>>

\* the command is run once
NextKey ==
    /\ ~ca.called
    /\ \E versions \in VersionLists, groups \in GroupLists,
          fault \in CaFaults, partial \in SUBSET TemplateTargets :
           CreateCloudAccess(fault, partial, groups, versions)

SpecKey == Init /\ [][NextKey]_vars

-----------------------------------------------------------------------------
(* What the claims speak of *)

IsPrefix(a, b) == Len(a) <= Len(b) /\ SubSeq(b, 1, Len(a)) = a

\* the places of a text where the quoted resource name stands
Occurrences(text, name) ==
    {i \in 1..Len(text) :
        /\ i + 2 <= Len(text)
        /\ text[i] = Q /\ text[i + 1] = name /\ text[i + 2] = Q}

Identifier(zname, ntype) ==
    resourceZoneName \o "_" \o zname \o "_" \o ntype

\* how often the generated configuration declares an identifier
Declarations(name) ==
    Cardinality(Occurrences(tfFile.data, name))
    + Cardinality(Occurrences(modFiles["mail"].data, name))
    + Cardinality(Occurrences(modFiles["www"].data, name))

ConfigRan == "config" \in Range(hist.stages)
ConfigSucceeded == ConfigRan /\ hist.reconciled /\ hist.msg \notin
    {NoListMsg, ModularizedMsg, NotModularizedMsg, RecordsetsMsg}

\* C1: however the config runs went, the generated configuration (the zone
\* tf file and the module files) declares no identifier (zone, record name,
\* record type) more than once
C1_NoDuplicateDeclaration ==
    \A zname \in Names, ntype \in Types :
        Declarations(Identifier(zname, ntype)) <= 1

\* a successful config run over a target that already declared a part of
\* its inventory, in a layout that was kept
C1_Witness ==
    /\ ConfigSucceeded
    /\ Len(hist.tfBefore.data) > 0
    /\ \E zname \in DOMAIN hist.invIn :
          /\ hist.invIn[zname] # <<>>
          /\ hist.residual[zname] # hist.invIn[zname]
    /\ \E zname \in Names, ntype \in Types :
          Declarations(Identifier(zname, ntype)) = 1

\* the types of a name whose quoted identifier stands nowhere in a text
RECURSIVE Undeclared(_, _, _)
Undeclared(text, zname, typeList) ==
    IF typeList = <<>> THEN <<>>
    ELSE (IF Occurrences(text, Identifier(zname, Head(typeList))) = {}
          THEN <<Head(typeList)>> ELSE <<>>)
         \o Undeclared(text, zname, Tail(typeList))

\* the inventory as the call of reconcileZoneResourceTargets received it
InventoryGiven == [Zone |-> zoneName, Recordsets |-> hist.invIn]

\* C2: after a config run that succeeded, reconciling the same inventory
\* against the text the run left in the target leaves no record type under
\* any record name
C2_SecondResidualEmpty ==
    ConfigSucceeded =>
        Pairs(reconcileZoneResourceTargets(InventoryGiven, resourceZoneName,
                                           tfFile).zoneImportList.Recordsets)
            = {}

\* C3: after a config run that succeeded, the content the target file had
\* before the run is a prefix of the content it has now
C3_PreviousContentIsPrefix ==
    ConfigSucceeded => IsPrefix(hist.tfBefore.data, tfFile.data)

\* C4: the residual that reconcile returns has the record names of the
\* inventory, and under each name exactly the types of the inventory whose
\* quoted identifier does not occur in the existing text
C4_ResidualIsInventoryMinusDeclared ==
    hist.reconciled =>
        /\ DOMAIN hist.typeMap = DOMAIN hist.invIn
        /\ \A zname \in DOMAIN hist.invIn :
              /\ DOMAIN hist.typeMap[zname] =
                    Range(Undeclared(hist.tfConfig, zname, hist.invIn[zname]))
              /\ \A t \in DOMAIN hist.typeMap[zname] : hist.typeMap[zname][t]
        /\ Pairs(hist.residual) \subseteq Pairs(hist.invIn)

\* an existing text that declares one type of a name of the inventory and
\* not another
C4_Witness ==
    /\ hist.reconciled
    /\ Len(hist.tfConfig) > 0
    /\ \E zname \in DOMAIN hist.invIn :
          /\ DOMAIN hist.typeMap[zname] # {}
          /\ DOMAIN hist.typeMap[zname] # Range(hist.invIn[zname])

\* C5: the existing text that reconcile returns is the full content of the
\* target file when the file exists, and empty when it does not
C5_ExistingTextIsFileContent ==
    hist.reconciled =>
        hist.tfConfig = (IF hist.tfBefore.exists THEN hist.tfBefore.data
                         ELSE <<>>)

\* a text in the modular layout, as the config stage tells it
Modular(text) == Contains(text, <<"module">>) /\ Contains(text, <<"zonename">>)

\* the config stage got as far as the check of the layout
LayoutChecked == hist.reconciled /\ Len(hist.tfBefore.data) > 0

\* C6: a segmentconfig run over a non-empty flat target and a flat run over
\* a non-empty modular target both end with the error of the layout and
\* leave the files as they were; no target ever holds declarations of both
\* layouts
C6_LayoutsExclusive ==
    /\ (LayoutChecked /\ hist.fl.ModSegment /\ ~Modular(hist.tfBefore.data))
          => /\ hist.code = 1
             /\ hist.msg = NotModularizedMsg
             /\ tfFile = hist.tfBefore
    /\ (LayoutChecked /\ ~hist.fl.ModSegment /\ Modular(hist.tfBefore.data))
          => /\ hist.code = 1
             /\ hist.msg = ModularizedMsg
             /\ tfFile = hist.tfBefore
    /\ ~(Contains(tfFile.data, <<"module">>)
         /\ Contains(tfFile.data, <<"resource">>))
    /\ (\E n \in Names : modFiles[n].exists) =>
          ~Contains(tfFile.data, <<"resource">>)

\* a flat run turned away by a modular target that already refers to the
\* module of a record name
C6_Witness ==
    /\ LayoutChecked
    /\ ~hist.fl.ModSegment
    /\ hist.msg = ModularizedMsg
    /\ Contains(hist.tfBefore.data, <<"source">>)
    /\ hist.invIn # EmptyMap

\* the config stage ran on its own, without the inventory stage before it
ConfigAlone == ConfigRan /\ ~hist.fl.createImportList

\* the inventory the side file held when the invocation began
Persisted == UnmarshalList(hist.listBefore.data).Recordsets

NoPanic == hist.msg \notin {PanicMsg, ModulesMsg}

ListFileAtCall ==
    IF hist.fl.createImportList THEN File(MarshalList(InventoryGiven))
    ELSE hist.listBefore

\* C9 as stated: when reconcileZoneResourceTargets has returned, the
\* inventory it was given and the side file hold the record names and the
\* record types they held before the call
C9_InventoryReadOnly ==
    hist.reconciled =>
        /\ hist.invOut = hist.invIn
        /\ hist.listAfter = ListFileAtCall

\* C9, amended: when reconcileZoneResourceTargets has returned, the
\* inventory it was given holds the same record names, each with only the
\* types the existing text does not declare; the side file is as before
C9_InventoryHoldsResidual ==
    hist.reconciled =>
        /\ DOMAIN hist.invOut = DOMAIN hist.invIn
        /\ \A zname \in DOMAIN hist.invIn :
              hist.invOut[zname] =
                  Undeclared(hist.tfConfig, zname, hist.invIn[zname])
        /\ hist.listAfter = ListFileAtCall

\* a call whose inventory came back with a type less under a name, beside
\* a side file that still holds that type
C9_Witness ==
    /\ hist.reconciled
    /\ hist.listAfter.exists
    /\ \E zname \in DOMAIN hist.invIn :
          /\ Len(hist.invOut[zname]) < Len(hist.invIn[zname])
          /\ zname \in DOMAIN UnmarshalList(hist.listAfter.data).Recordsets
          /\ UnmarshalList(hist.listAfter.data).Recordsets[zname]
                = hist.invIn[zname]

ScriptRan == "script" \in Range(hist.stages)

InitLine == "terraform init"

ZoneLines ==
    IF (zoneResource \o "." \o resourceZoneName) \in hist.imported THEN {}
    ELSE {"terraform import akamai_dns_zone.example_com example.com"}

RecordLines ==
    {"terraform import akamai_dns_record." \o Identifier(p[1], p[2])
        \o " example.com#" \o p[1] \o "#" \o p[2] :
        p \in {q \in Pairs(hist.scriptMap) :
                 (recordsetResource \o "." \o Identifier(q[1], q[2]))
                     \notin hist.imported}}

\* C10: the script is the initialization line, then the import line of the
\* zone unless the zone is found declared, then one import line for each
\* (record name, record type) of the residual not found declared, each once,
\* and nothing else
C10_ScriptLines ==
    ScriptRan =>
        /\ scriptFile.exists
        /\ Len(scriptFile.data) = 1 + Cardinality(ZoneLines \cup RecordLines)
        /\ scriptFile.data[1] = InitLine
        /\ Range(Tail(scriptFile.data)) = ZoneLines \cup RecordLines
        /\ ZoneLines # {} => scriptFile.data[2] \in ZoneLines

\* a script written when the zone was found declared and a record type of
\* the residual was not
C10_Witness ==
    /\ ScriptRan
    /\ ZoneLines = {}
    /\ RecordLines # {}
    /\ Len(scriptFile.data) = 1 + Cardinality(RecordLines)

\* an inventory of two record names with one record type each
TwoNames == [n \in {"mail", "www"} |-> IF n = "www" THEN <<"AAAA">> ELSE <<"A">>]

\* the end-to-end scenario: config and script over the inventory TwoNames,
\* no zone tf file before the run, nothing found declared
EndToEnd ==
    /\ ConfigSucceeded
    /\ ScriptRan
    /\ ~hist.tfBefore.exists
    /\ hist.imported = {}
    /\ hist.invIn = TwoNames

\* C11 as stated: in the end-to-end scenario the residual is the full
\* inventory and the import script has exactly 3 lines
C11_ScriptHasThreeLines ==
    EndToEnd =>
        /\ hist.residual = TwoNames
        /\ Len(scriptFile.data) = 3

\* C11, amended: in the end-to-end scenario the residual is the full
\* inventory and the import script has exactly 4 lines: the initialization
\* line, the import line of the zone and the import lines of the two
\* recordsets
C11_ScriptHasFourLines ==
    EndToEnd =>
        /\ hist.residual = TwoNames
        /\ \A zname \in DOMAIN TwoNames :
              DOMAIN hist.typeMap[zname] = Range(TwoNames[zname])
        /\ hist.scriptMap = TwoNames
        /\ Len(scriptFile.data) = 4
        /\ scriptFile.data[1] = InitLine
        /\ scriptFile.data[2] \in ZoneLines
        /\ {scriptFile.data[3], scriptFile.data[4]} = RecordLines
        /\ Cardinality(RecordLines) = 2

\* the end-to-end scenario was run
C11_Witness ==
    /\ EndToEnd
    /\ hist.code = 0
    /\ Len(scriptFile.data) > 1

\* the messages the command exits with after a failure
ExitMessages ==
    {ZoneMsg, NamesMsg, TypesMsg, ListExistsMsg, ModularizedMsg,
     NotModularizedMsg, NoListMsg, RecordsetsMsg, ModulesMsg}

\* the stage in which an operation is performed
StageOf(op) ==
    IF op \in {"GetZoneNames", "GetZoneNameTypes"} THEN "inventory"
    ELSE IF op = "retrieveZoneResourceConfig" THEN "script"
    ELSE "config"

\* C12: an invocation in which a fetch or a file operation failed ends with
\* exit status 1 and one of the messages of the command, not with a panic
\* and not with the report of completion, and no stage after the one of the
\* failure was run
C12_EveryFailureExits ==
    \A op \in hist.failedOps :
        /\ hist.code = 1
        /\ hist.msg \in ExitMessages
        /\ op # "GetZone" =>
              /\ hist.stages # <<>>
              /\ hist.stages[Len(hist.stages)] = StageOf(op)
        /\ op = "GetZone" => hist.stages = <<>>

\* a remote fetch of the invocation failed
FetchFailed == hist.msg \in {ZoneMsg, NamesMsg, TypesMsg}

RerunAfterPartialWrite ==
    /\ hist.msg = RecordsetsMsg
    /\ hist'.msg = Completed
    /\ "config" \in Range(hist'.stages)
    /\ hist'.invIn = hist.invIn

\* every identifier of an inventory is declared exactly once
DeclaredOnce(inventory) ==
    \A p \in Pairs(inventory) : Declarations(Identifier(p[1], p[2])) = 1

\* C14: when a config run that failed while writing is followed by a config
\* run that succeeds over the same inventory, every identifier of the
\* inventory is then declared exactly once and the text the failed run left
\* in the target is still there, as the beginning of the new text
C14_RerunAfterFailureIsSafe ==
    [][RerunAfterPartialWrite =>
          /\ DeclaredOnce(hist.invIn)'
          /\ IsPrefix(tfFile.data, tfFile'.data)]_vars

\* C15: when the target file is missing or empty, reconcile returns the
\* whole inventory as the residual: every record name with all its types
C15_EmptyTextKeepsInventory ==
    (hist.reconciled /\ hist.tfBefore.data = <<>>) =>
        /\ hist.tfConfig = <<>>
        /\ hist.residual = hist.invIn
        /\ DOMAIN hist.typeMap = DOMAIN hist.invIn
        /\ \A zname \in DOMAIN hist.invIn :
              /\ DOMAIN hist.typeMap[zname] = Range(hist.invIn[zname])
              /\ \A t \in DOMAIN hist.typeMap[zname] : hist.typeMap[zname][t]

\* a reconcile of a record name with two types against no target file
C15_Witness ==
    /\ hist.reconciled
    /\ ~hist.tfBefore.exists
    /\ "www" \in DOMAIN hist.invIn
    /\ hist.invIn["www"] = <<"A", "AAAA">>
    /\ hist.residual = hist.invIn

\* the quoted token of the identifier of a type stands in the existing text
TokenIn(zname, ntype) ==
    Occurrences(hist.tfConfig, Identifier(zname, ntype)) # {}

\* C16: a type of a record name is left out of the residual exactly when the
\* quoted token of its own identifier stands in the existing text; with the
\* token of www A in the text and not that of www AAAA, the inventory
\* www: [A, AAAA] leaves the residual www: [AAAA]
C16_MembershipPerType ==
    hist.reconciled =>
        /\ \A zname \in DOMAIN hist.invIn :
              \A i \in 1..Len(hist.invIn[zname]) :
                  (hist.invIn[zname][i] \notin Range(hist.residual[zname]))
                      <=> TokenIn(zname, hist.invIn[zname][i])
        /\ ("www" \in DOMAIN hist.invIn
            /\ hist.invIn["www"] = <<"A", "AAAA">>
            /\ TokenIn("www", "A") /\ ~TokenIn("www", "AAAA"))
              => /\ hist.residual["www"] = <<"AAAA">>
                 /\ DOMAIN hist.typeMap["www"] = {"AAAA"}

\* the inventory www: [A, AAAA] reconciled against a text that holds the
\* token of www A alone
C16_Witness ==
    /\ hist.reconciled
    /\ hist.invIn = [n \in {"www"} |-> <<"A", "AAAA">>]
    /\ TokenIn("www", "A")
    /\ ~TokenIn("www", "AAAA")
    /\ hist.residual = [n \in {"www"} |-> <<"AAAA">>]

InventoryRan == "inventory" \in Range(hist.stages)

\* the inventory stage came to its end
InventoryWritten ==
    InventoryRan /\ hist.msg \notin {NamesMsg, TypesMsg, ListExistsMsg}

\* C17: with namesonly the inventory stage asks for the types of no record
\* name, and the inventory it writes holds every record name the API
\* reported, each with no type
C17_NamesOnlyFetchesNoTypes ==
    (InventoryRan /\ hist.fl.NamesOnly) =>
        /\ hist.fetched = <<>>
        /\ hist.fetches = 0
        /\ hist.msg # TypesMsg
        /\ InventoryWritten =>
              /\ hist.listAfter.exists
              /\ UnmarshalList(hist.listAfter.data).Recordsets
                    = [n \in Range(hist.recordNames) |-> <<>>]

\* a namesonly inventory of a zone whose record name has a type at the API
C17_Witness ==
    /\ InventoryWritten
    /\ hist.fl.NamesOnly
    /\ hist.recordNames # <<>>
    /\ \A n \in Range(hist.recordNames) : remote[n] # <<>>
    /\ hist.listAfter.exists
    /\ ~hist.listBefore.exists

\* C18: the import script comes out the same every time: whatever order the
\* record names of the map are ranged over, buildZoneImportScript gives for
\* the inputs of the last run the script that run wrote
C18_ScriptOrderStable ==
    ScriptRan =>
        \A ord \in Perms(Names) :
            buildZoneImportScript(hist.imported, zoneName, hist.scriptMap,
                                  resourceZoneName, ord) = scriptFile.data

\* the inventory stage made all its fetches and found a resources list file
RefreshTried == InventoryRan /\ ~FetchFailed /\ hist.listBefore.exists

\* C19 as stated: an inventory stage run when the resources list file
\* exists succeeds and puts the inventory just fetched in its place
C19_InventoryRefreshed ==
    RefreshTried =>
        /\ hist.msg # ListExistsMsg
        /\ DOMAIN UnmarshalList(hist.listAfter.data).Recordsets
              = Range(hist.recordNames)

\* C19, amended: an inventory stage run when the resources list file exists
\* ends with the error that asks to remove the file, after its fetches,
\* leaves the file as it was and runs no later stage; when the file does
\* not exist the stage writes the record names just fetched
C19_ExistingInventoryRefused ==
    /\ RefreshTried =>
          /\ hist.code = 1
          /\ hist.msg = ListExistsMsg
          /\ hist.listAfter = hist.listBefore
          /\ hist.stages = <<"inventory">>
    /\ (InventoryRan /\ ~FetchFailed /\ ~hist.listBefore.exists) =>
          /\ hist.msg # ListExistsMsg
          /\ hist.listAfter.exists
          /\ DOMAIN UnmarshalList(hist.listAfter.data).Recordsets
                = Range(hist.recordNames)

\* an inventory stage turned away by a resources list file that lacks a
\* record name the API now reports
C19_Witness ==
    /\ RefreshTried
    /\ hist.msg = ListExistsMsg
    /\ listFile = hist.listBefore
    /\ DOMAIN UnmarshalList(listFile.data).Recordsets
          # Range(hist.recordNames)

\* C20: an invocation without the config stage leaves the zone tf file as
\* it was, missing or not, and an invocation with the config stage and
\* without the inventory stage leaves the resources list file as it was
C20_IndependentLifecycles ==
    /\ (hist.fl.createImportList /\ ~hist.fl.createConfig) =>
          /\ ~ConfigRan
          /\ tfFile = hist.tfBefore
    /\ (hist.fl.createConfig /\ ~hist.fl.createImportList) =>
          /\ ~InventoryRan
          /\ hist.listAfter = hist.listBefore

\* an inventory written beside a zone tf file of an earlier run
C20_Witness ==
    /\ hist.fl.createImportList
    /\ ~hist.fl.createConfig
    /\ InventoryWritten
    /\ ~hist.listBefore.exists
    /\ hist.listAfter.exists
    /\ Len(tfFile.data) > 0

\* how often a text declares the zone resource
ZoneDeclarations(text) == Cardinality(Occurrences(text, resourceZoneName))

\* C21: from an absent target on, the config stage renders the zone only
\* when the target holds no text, and never over a target that holds text:
\* a target left by a config run declares the zone exactly once
C21_ZoneDeclaredOnce ==
    /\ hist.zoneRendered => hist.tfBefore.data = <<>>
    /\ (hist.reconciled /\ Len(hist.tfBefore.data) > 0) => ~hist.zoneRendered
    /\ tfFile.exists => ZoneDeclarations(tfFile.data) = 1
    /\ ConfigSucceeded => tfFile.exists

\* a config run that added a recordset to a target an earlier run had made,
\* without rendering the zone again
C21_Witness ==
    /\ ConfigSucceeded
    /\ hist.msg = Completed
    /\ ZoneDeclarations(hist.tfBefore.data) = 1
    /\ ~hist.zoneRendered
    /\ tfFile # hist.tfBefore
    /\ ZoneDeclarations(tfFile.data) = 1

\* a step that is an invocation of the command ending in the error of the
\* layout
RejectedForLayout ==
    /\ steps' = steps + 1
    /\ UNCHANGED <<remote, tfstate>>
    /\ listFile.exists => listFile'.exists
    /\ hist'.reconciled
    /\ hist'.msg \in {ModularizedMsg, NotModularizedMsg}

\* C22: a config run turned away for the layout leaves the work path as it
\* found it: the content of the target is the same, and no resource config
\* file, no dnsvars.tf and no modules folder comes to be
C22_RejectedRunLeavesWorkPath ==
    [][RejectedForLayout =>
          /\ tfFile' = tfFile
          /\ cfgFile' = cfgFile
          /\ dnsvars' = dnsvars
          /\ modFiles' = modFiles
          /\ modulesDir' = modulesDir]_vars

\* the order of the stages in the code
StageOrder == <<"inventory", "config", "script">>

\* the flag that enables a stage
Enabled(stage) ==
    IF stage = "inventory" THEN hist.fl.createImportList
    ELSE IF stage = "config" THEN hist.fl.createConfig
    ELSE hist.fl.importScript

\* the inventory stage of the invocation wrote its inventory
InventorySucceeded ==
    InventoryRan /\ ~hist.listBefore.exists /\ hist.listAfter.exists

\* C23: the stages of an invocation run in the order inventory, config,
\* import script; a stage runs only if it is enabled and every enabled
\* stage before it succeeded; a config stage after an inventory stage takes
\* the inventory just fetched and reads no side file, and a script stage
\* after a config stage takes the config map just built and reads no
\* resource config file
C23_StagesInOrder ==
    /\ hist.stages = SelectTypes(StageOrder, Range(hist.stages))
    /\ \A i \in 1..Len(hist.stages) : Enabled(hist.stages[i])
    /\ ConfigRan => (hist.fl.createImportList => InventorySucceeded)
    /\ ScriptRan =>
          /\ hist.fl.createImportList => InventorySucceeded
          /\ hist.fl.createConfig => ConfigSucceeded
    /\ hist.code # 0 =>
          \/ hist.stages = <<>>
          \/ hist.stages[Len(hist.stages)] # "script"
    /\ (ConfigRan /\ hist.fl.createImportList) =>
          /\ ~hist.loaded
          /\ hist.invIn = UnmarshalList(hist.listAfter.data).Recordsets
          /\ DOMAIN hist.invIn = Range(hist.recordNames)
    /\ (ScriptRan /\ hist.fl.createConfig) =>
          /\ ~hist.scriptLoaded
          /\ hist.scriptMap = hist.cfgMap
    /\ (ScriptRan /\ ~hist.fl.createConfig /\ cfgFile.exists) =>
          /\ hist.scriptLoaded
          /\ hist.scriptMap = Unmarshal(cfgFile.data)

\* an invocation of all three stages beside a zone tf file of an earlier
\* run: the inventory fetched went to the config stage, the config map
\* built went to the script stage
C23_Witness ==
    /\ hist.stages = StageOrder
    /\ hist.msg = Completed
    /\ Len(hist.tfBefore.data) > 0
    /\ Pairs(hist.invIn) # {}
    /\ hist.scriptMap = hist.cfgMap
    /\ ~hist.loaded
    /\ ~hist.scriptLoaded

\* C24: a script stage that finds the import script file there leaves the
\* file as it is
C24_ExistingScriptKept ==
    (ScriptRan /\ hist.scriptBefore.exists) => scriptFile = hist.scriptBefore

\* the contents a module file is written with
ModuleContents ==
    {RecordsetText(resourceZoneName, n, typeList) :
        n \in Names, typeList \in {<<"A">>, <<"AAAA">>, <<"A", "AAAA">>}}

\* createModuleTF called in the present state of the module files
ModuleFileKept ==
    \A n \in Names, content \in ModuleContents :
        /\ modFiles[n].exists =>
              /\ createModuleTF(modFiles, n, content).err
              /\ createModuleTF(modFiles, n, content).mods = modFiles
        /\ ~modFiles[n].exists =>
              /\ ~createModuleTF(modFiles, n, content).err
              /\ createModuleTF(modFiles, n, content).mods
                    = [modFiles EXCEPT ![n] = File(content)]

C26_CreateDirectoryReturns ==
    hist.dirCall.called =>
        /\ ~hist.dirCall.panics
        /\ hist.dirCall.ret <=> hist.dirCall.after = "dir"
        /\ ~hist.dirCall.ret => hist.dirCall.after = hist.dirCall.before

\* populateCloudAccessData was called in the last call of createCloudAccess
Populated == ca.called /\ ca.data # <<>>

CredentialA == ca.data[1].Key.CredentialA
CredentialB == ca.data[1].Key.CredentialB

\* the versions of the response that have exactly n versions of a lower
\* number beside them
Ranked(n) ==
    {ca.versions[i] : i \in {j \in 1..Len(ca.versions) :
        Cardinality({k \in 1..Len(ca.versions) :
                        ca.versions[k].Version < ca.versions[j].Version}) = n}}

Reordered(p) == [i \in 1..Len(ca.versions) |-> ca.versions[p[i]]]

Calls(name) == Cardinality({i \in 1..Len(ca.calls) : ca.calls[i] = name})

\* C29: createCloudAccess processes the templates at most once, and only
\* after GetAccessKey succeeded, the key has a group and
\* ListAccessKeyVersions succeeded; else it returns ErrFetchingKey,
\* ErrNoGroup or ErrListingKeyVersions, makes no later call (the versions
\* of a key without groups are not listed) and writes no file
C29_TemplatesOnlyAfterFetches ==
    ca.called =>
        /\ Calls("ProcessTemplates") <= 1
        /\ Calls("ProcessTemplates") = 1 =>
              /\ ca.fault \notin {"key", "versions"}
              /\ Len(ca.groups) > 0
              /\ ca.calls = <<"GetAccessKey", "ListAccessKeyVersions",
                              "ProcessTemplates">>
        /\ ca.fault = "key" =>
              /\ ca.err = ErrFetchingKey
              /\ ca.calls = <<"GetAccessKey">>
        /\ (ca.fault # "key" /\ Len(ca.groups) = 0) =>
              /\ ca.err = ErrNoGroup
              /\ ca.calls = <<"GetAccessKey">>
        /\ (ca.fault = "versions" /\ Len(ca.groups) > 0) =>
              /\ ca.err = ErrListingKeyVersions
              /\ ca.calls = <<"GetAccessKey", "ListAccessKeyVersions">>
        /\ Calls("ProcessTemplates") = 0 =>
              /\ ca.files = {}
              /\ ca.data = <<>>
              /\ ca.err \in {ErrFetchingKey, ErrNoGroup, ErrListingKeyVersions}
        /\ ca.err = "" => ca.files = TemplateTargets

\* a key without groups whose versions the API would have failed to list
C29_Witness ==
    /\ ca.called
    /\ Len(ca.groups) = 0
    /\ ca.fault = "versions"
    /\ ca.err = ErrNoGroup
    /\ ca.calls = <<"GetAccessKey">>
    /\ ca.files = {}

====
